---- MODULE Spec2Model ----
(***************************************************************************)
(* The game-theoretic decision engine of response-bot (src/game_theory.py) *)
(* together with the JSON history file it shares with the bot script       *)
(* (src/bot_enhanced.py).                                                  *)
(*                                                                         *)
(* Numbers.  Payoffs and regrets are Python floats; here they are exact    *)
(* decimals counted in units of 0.05 (so 0.35 is 7, 1.25 is 25, 1.1 is 22).*)
(* Every constant of the engine and every payoff the bot computes is a     *)
(* multiple of 0.05.  Probabilities are exact fractions.                   *)
(*                                                                         *)
(* Dictionaries are functions; a key is present iff it is in the DOMAIN.   *)
(***************************************************************************)
EXTENDS Integers, Sequences, FiniteSets, TLC

VARIABLES
    actions,   \* actions[e]: self.actions of engine instance e (<<>>: not constructed)
    state,     \* state[e]:   self.state of engine instance e (the in-memory game state)
    history,   \* the contents of HISTORY_FILE (bot_history.json); no keys: no file
    last,      \* the call that has just returned: its name, arguments, result and
               \* the state it started from; Idle once the caller has moved on
    penalties, \* how many penalize_failure calls were made (bounds the model)
    updates,   \* how many update_regret calls have returned
    run,       \* the run of the bot's main script: its position and its locals
    reply,     \* src/reply_engine.py: the RateLimiter of a ReplyEngine, the clock
               \* and the process_responses calls in progress
    sched      \* src/scheduler.py: a ScheduledTask and the run_once calls in progress

engineVars == <<actions, state, history>>
asyncVars == <<reply, sched>>
vars == <<actions, state, history, last, penalties, updates, run, reply, sched>>

---------------------------------------------------------------------------
(* Bounds of the model *)

\* update_regret is not called once iterations has reached MaxIter, nor
\* once MaxIter calls of it have returned
MaxIter == 2
\* penalize_failure is not called more than MaxPenalties times
MaxPenalties == 1
\* the main script is not run more than MaxRuns times
MaxRuns == 3
\* the clock of the reply engine stops at MaxClock ticks
MaxClock == 4
\* the function of a scheduled task is not called more than MaxCalls times
MaxCalls == 4

\* the engine instances; the bot has one at a time, and constructing it
\* again (the next run of the script) replaces it
Engines == {1}

---------------------------------------------------------------------------
(* Dictionaries *)

EmptyDict == [k \in {} |-> 0]

Get(d, k, default) == IF k \in DOMAIN d THEN d[k] ELSE default

Put(d, k, v) == [x \in (DOMAIN d) \cup {k} |-> IF x = k THEN v ELSE d[x]]

SetDefault(d, k, v) == IF k \in DOMAIN d THEN d ELSE Put(d, k, v)

Range(s) == {s[i] : i \in DOMAIN s}

Max(a, b) == IF a >= b THEN a ELSE b

RECURSIVE SumSeq(_)
SumSeq(s) == IF s = <<>> THEN 0 ELSE Head(s) + SumSeq(Tail(s))

\* sum(d.values())
RECURSIVE SumValues(_)
SumValues(d) ==
    IF DOMAIN d = {} THEN 0
    ELSE LET k == CHOOSE x \in DOMAIN d : TRUE
         IN  d[k] + SumValues([x \in (DOMAIN d) \ {k} |-> d[x]])

---------------------------------------------------------------------------
(* The history file: load_history / save_history of bot_enhanced.py *)

BaseGameTheory ==
    [regret |-> EmptyDict, strategy_counts |-> EmptyDict, iterations |-> 0]

\* load_history(): the file's record with the three default keys set; a
\* missing file gives base_history, which is the same record built from {}
load_history(file) ==
    SetDefault(SetDefault(SetDefault(file,
        "replied_tweets", <<>>),
        "reddit_posts", <<>>),
        "game_theory", BaseGameTheory)

\* save_history(h): the file becomes h; an IOError is caught and the file
\* keeps its contents (ok = FALSE).  json.dump followed by json.load gives
\* back the record as it was: its keys are strings and its values are
\* numbers, strings, lists and dictionaries of these
save_history(file, h, ok) == IF ok THEN h ELSE file

---------------------------------------------------------------------------
(* GameTheoryEngine: constants *)

\* self.failure_penalty = 0.35, in units of 0.05
failure_penalty == 7
\* self.mixing_factor = 0.55 = MixNum / MixDen
MixNum == 11
MixDen == 20
\* self.temperature = 1.2: a payoff difference of d units is d * 0.05 / 1.2 = d / TempDiv
TempDiv == 24
\* the floor of a weight, 1e-6 = 1 / EpsInv
EpsInv == 1000000

DefaultActions == <<"reply", "quote">>

\* the "actions" argument of the constructor: None (the default), or a tuple
NoActions == [given |-> FALSE, tuple |-> <<>>]

ActionsTuple(t) == [given |-> TRUE, tuple |-> t]

\* actions or ("reply", "quote"): None and the empty tuple are both falsy
EffectiveActions(arg) ==
    IF ~arg.given \/ arg.tuple = <<>> THEN DefaultActions ELSE arg.tuple

---------------------------------------------------------------------------
(* GameTheoryEngine: state updates *)

\* (mutant) d[action] = v in place of d.setdefault(action, v)
FillDefaultsOverwriting(d, acts, v) ==
    [k \in (DOMAIN d) \cup Range(acts) |-> IF k \in Range(acts) THEN v ELSE d[k]]

\* the loop of _load_or_initialize_state: d.setdefault(action, v) for each action
FillDefaults(d, acts, v) ==
    [k \in (DOMAIN d) \cup Range(acts) |-> IF k \in DOMAIN d THEN d[k] ELSE v]

\* (mutant) the loaded record is dropped and the defaults are used
InitialGameStateFresh(hist, acts) ==
    [regret |-> [a \in Range(acts) |-> 0],
     strategy_counts |-> [a \in Range(acts) |-> 1],
     iterations |-> 0]

\* (mutant) iterations is set to 0 whatever the loaded record holds
InitialGameStateRestart(hist, acts) ==
    LET game_state == Get(hist, "game_theory", EmptyDict)
        regret == FillDefaults(Get(game_state, "regret", EmptyDict), acts, 0)
        strategy_counts ==
            FillDefaults(Get(game_state, "strategy_counts", EmptyDict), acts, 1)
    IN  Put(Put(Put(game_state, "regret", regret),
                "strategy_counts", strategy_counts),
            "iterations", 0)

\* the game state _load_or_initialize_state builds from the loaded history
InitialGameState(hist, acts) ==
    LET game_state == Get(hist, "game_theory", EmptyDict)
        regret == FillDefaults(Get(game_state, "regret", EmptyDict), acts, 0)
        strategy_counts ==
            FillDefaults(Get(game_state, "strategy_counts", EmptyDict), acts, 1)
    IN  SetDefault(Put(Put(game_state, "regret", regret),
                       "strategy_counts", strategy_counts),
                   "iterations", 0)

\* (mutant) the loop without the floor at 0.0
RECURSIVE RegretLoopUnfloored(_, _, _, _, _)
RegretLoopUnfloored(regrets, payoffs, chosen_payoff, acts, i) ==
    IF i > Len(acts) THEN regrets
    ELSE LET action == acts[i]
             current == Get(regrets, action, 0)
             regret_delta == Get(payoffs, action, 0) - chosen_payoff
         IN  RegretLoopUnfloored(Put(regrets, action, current + regret_delta),
                                 payoffs, chosen_payoff, acts, i + 1)

\* the loop of update_regret over self.actions, from position i on
RECURSIVE RegretLoop(_, _, _, _, _)
RegretLoop(regrets, payoffs, chosen_payoff, acts, i) ==
    IF i > Len(acts) THEN regrets
    ELSE LET action == acts[i]
             current == Get(regrets, action, 0)
             regret_delta == Get(payoffs, action, 0) - chosen_payoff
         IN  RegretLoop(Put(regrets, action, Max(0, current + regret_delta)),
                        payoffs, chosen_payoff, acts, i + 1)

\* (mutant) regret measured against the best payoff, not the chosen one
update_regret_against_best(st, acts, payoffs, chosen_action) ==
    LET best == CHOOSE v \in {Get(payoffs, a, 0) : a \in Range(acts)} :
                    \A a \in Range(acts) : Get(payoffs, a, 0) <= v
        regrets == RegretLoop(Get(st, "regret", EmptyDict), payoffs, best, acts, 1)
        counts == Get(st, "strategy_counts", EmptyDict)
        strategy_counts == Put(counts, chosen_action, Get(counts, chosen_action, 0) + 1)
    IN  Put(Put(Put(st, "regret", regrets),
                "strategy_counts", strategy_counts),
            "iterations", Get(st, "iterations", 0) + 1)

\* (mutant) the iteration counter is not incremented
update_regret_same_iteration(st, acts, payoffs, chosen_action) ==
    LET chosen_payoff == Get(payoffs, chosen_action, 0)
        regrets == RegretLoop(Get(st, "regret", EmptyDict), payoffs,
                              chosen_payoff, acts, 1)
        counts == Get(st, "strategy_counts", EmptyDict)
        strategy_counts == Put(counts, chosen_action, Get(counts, chosen_action, 0) + 1)
    IN  Put(Put(Put(st, "regret", regrets),
                "strategy_counts", strategy_counts),
            "iterations", Get(st, "iterations", 0))

\* (mutant) the strategy count of every configured action is incremented
update_regret_counting_all(st, acts, payoffs, chosen_action) ==
    LET chosen_payoff == Get(payoffs, chosen_action, 0)
        regrets == RegretLoop(Get(st, "regret", EmptyDict), payoffs,
                              chosen_payoff, acts, 1)
        counts == Get(st, "strategy_counts", EmptyDict)
        strategy_counts ==
            [a \in (DOMAIN counts) \cup Range(acts) \cup {chosen_action} |->
                IF a \in Range(acts) \cup {chosen_action}
                THEN Get(counts, a, 0) + 1 ELSE counts[a]]
    IN  Put(Put(Put(st, "regret", regrets),
                "strategy_counts", strategy_counts),
            "iterations", Get(st, "iterations", 0) + 1)

\* (mutant) a chosen action that is not configured is not counted
update_regret_configured_only(st, acts, payoffs, chosen_action) ==
    LET chosen_payoff == Get(payoffs, chosen_action, 0)
        regrets == RegretLoop(Get(st, "regret", EmptyDict), payoffs,
                              chosen_payoff, acts, 1)
        counts == Get(st, "strategy_counts", EmptyDict)
        strategy_counts ==
            IF chosen_action \in Range(acts)
            THEN Put(counts, chosen_action, Get(counts, chosen_action, 0) + 1)
            ELSE counts
    IN  Put(Put(Put(st, "regret", regrets),
                "strategy_counts", strategy_counts),
            "iterations", Get(st, "iterations", 0) + 1)

\* self.state after update_regret(payoffs, chosen_action)
update_regret(st, acts, payoffs, chosen_action) ==
    LET chosen_payoff == Get(payoffs, chosen_action, 0)
        regrets == RegretLoop(Get(st, "regret", EmptyDict), payoffs,
                              chosen_payoff, acts, 1)
        counts == Get(st, "strategy_counts", EmptyDict)
        strategy_counts == Put(counts, chosen_action, Get(counts, chosen_action, 0) + 1)
    IN  Put(Put(Put(st, "regret", regrets),
                "strategy_counts", strategy_counts),
            "iterations", Get(st, "iterations", 0) + 1)

\* (mutant) the penalty without the floor at 0.0
penalize_failure_unfloored(st, action) ==
    LET regrets == Get(st, "regret", EmptyDict)
    IN  Put(st, "regret",
            Put(regrets, action, Get(regrets, action, 0) - failure_penalty))

\* (mutant) the penalty taken from every regret, not only the failed action's
penalize_failure_everywhere(st, action) ==
    LET regrets == Put(Get(st, "regret", EmptyDict), action,
                       Get(Get(st, "regret", EmptyDict), action, 0))
    IN  Put(st, "regret",
            [a \in DOMAIN regrets |-> Max(0, regrets[a] - failure_penalty)])

\* (mutant) an action that has no regret yet is left without one
penalize_failure_known_only(st, action) ==
    LET regrets == Get(st, "regret", EmptyDict)
    IN  IF action \in DOMAIN regrets
        THEN Put(st, "regret",
                 Put(regrets, action, Max(0, regrets[action] - failure_penalty)))
        ELSE st

\* (mutant) the penalty is added to the regret
penalize_failure_boosting(st, action) ==
    LET regrets == Get(st, "regret", EmptyDict)
    IN  Put(st, "regret",
            Put(regrets, action, Max(0, Get(regrets, action, 0) + failure_penalty)))

\* self.state after penalize_failure(action)
penalize_failure(st, action) ==
    LET regrets == Get(st, "regret", EmptyDict)
    IN  Put(st, "regret",
            Put(regrets, action, Max(0, Get(regrets, action, 0) - failure_penalty)))

\* (mutant) the record is saved as it was read, without self.state
persist_state_stale(file, st, ok) ==
    save_history(file, load_history(file), ok)

\* (mutant) a record holding only game_theory is saved
persist_state_alone(file, st, ok) ==
    save_history(file, Put(EmptyDict, "game_theory", st), ok)

\* (mutant) a stored record that has more iterations than self.state is kept
persist_state_keeping_newer(file, st, ok) ==
    LET stored == Get(load_history(file), "game_theory", EmptyDict)
    IN  IF Get(stored, "iterations", 0) > Get(st, "iterations", 0)
        THEN save_history(file, load_history(file), ok)
        ELSE save_history(file, Put(load_history(file), "game_theory", st), ok)

\* the file after _persist_state: the record is read again, game_theory is
\* overwritten with self.state, and the record is saved
persist_state(file, st, ok) ==
    save_history(file, Put(load_history(file), "game_theory", st), ok)

---------------------------------------------------------------------------
(* GameTheoryEngine: payoffs *)

\* baseline_payoffs(): 1.0 per action, reply + 0.25, quote + 0.1
baseline_payoffs(acts) ==
    [a \in Range(acts) |->
        20 + (IF a = "reply" THEN 5 ELSE 0) + (IF a = "quote" THEN 2 ELSE 0)]

\* total_engagement of estimate_payoffs, in tenths:
\* reply_count * 1.4 + quote_count * 1.2 + retweet_count + favorite_count * 0.6
TotalEngagement10(tweet) ==
    LET engagement == Get(tweet, "engagement", EmptyDict)
    IN  Get(engagement, "reply_count", 0) * 14
        + Get(engagement, "quote_count", 0) * 12
        + Get(engagement, "retweet_count", 0) * 10
        + Get(engagement, "favorite_count", 0) * 6

\* round(score, 3): every score is a sum of multiples of 0.05, which rounding
\* to three decimals leaves as it is
Round3(score) == (score * 50) \div 50

\* (mutant) a question adds nothing to the reply score
ReplyScoreDeaf(tweet) ==
    LET te == TotalEngagement10(tweet)
        text_len == Get(tweet, "text_len", 0)
    IN  (IF te < 400 THEN 12 ELSE IF te > 10000 THEN -8 ELSE 0)
        + (IF Get(tweet, "has_media", FALSE) THEN 10 ELSE 0)
        + (IF 60 <= text_len /\ text_len <= 260 THEN 4 ELSE 0)

\* the reply heuristics of estimate_payoffs, added to the prior
ReplyScore(tweet) ==
    LET te == TotalEngagement10(tweet)
        text_len == Get(tweet, "text_len", 0)
    IN  (IF Get(tweet, "has_question", FALSE) THEN 32 ELSE 0)
        + (IF te < 400 THEN 12 ELSE IF te > 10000 THEN -8 ELSE 0)
        + (IF Get(tweet, "has_media", FALSE) THEN 10 ELSE 0)
        + (IF 60 <= text_len /\ text_len <= 260 THEN 4 ELSE 0)

\* (mutant) media adds to the quote score what it adds to the reply score
QuoteScoreEven(tweet) ==
    LET te == TotalEngagement10(tweet)
    IN  6
        + (IF Get(tweet, "has_media", FALSE) THEN 10 ELSE 0)
        + (IF Get(tweet, "has_video", FALSE) THEN 8 ELSE 0)
        + (IF te >= 2000 THEN 6 ELSE 0)
        + (IF te <= 300 THEN -4 ELSE 0)

\* the quote heuristics of estimate_payoffs, added to the prior
QuoteScore(tweet) ==
    LET te == TotalEngagement10(tweet)
    IN  6
        + (IF Get(tweet, "has_media", FALSE) THEN 20 ELSE 0)
        + (IF Get(tweet, "has_video", FALSE) THEN 8 ELSE 0)
        + (IF te >= 2000 THEN 6 ELSE 0)
        + (IF te <= 300 THEN -4 ELSE 0)

\* estimate_payoffs(tweet): the prior 0.6 per action plus the heuristics
estimate_payoffs(tweet, acts) ==
    [a \in Range(acts) |->
        Round3(12 + (IF a = "reply" THEN ReplyScore(tweet) ELSE 0)
                  + (IF a = "quote" THEN QuoteScore(tweet) ELSE 0))]

\* (mutant) diagnostics() reports every regret the state holds
diagnostics_all_stored(st, acts) ==
    LET regrets == Get(st, "regret", EmptyDict)
    IN  [a \in Range(acts) \cup DOMAIN regrets |-> Round3(Get(regrets, a, 0))]

\* diagnostics(): the regret of each configured action, rounded
diagnostics(st, acts) ==
    LET regrets == Get(st, "regret", EmptyDict)
    IN  [a \in Range(acts) |-> Round3(Get(regrets, a, 0))]

---------------------------------------------------------------------------
(* GameTheoryEngine: policies.  A policy is a dictionary of fractions with  *)
(* one denominator: [num |-> action -> numerator, den |-> denominator].     *)

\* 1000 * exp(-d / TempDiv), rounded, for d = 0 .. 64
ExpTable ==
    << 1000, 959, 920, 882, 846, 812, 779, 747, 717, 687, 659, 632, 607,
       582, 558, 535, 513, 492, 472, 453, 435, 417, 400, 384, 368, 353,
       338, 325, 311, 299, 287, 275, 264, 253, 243, 233, 223, 214, 205,
       197, 189, 181, 174, 167, 160, 153, 147, 141, 135, 130, 125, 119,
       115, 110, 105, 101, 97, 93, 89, 86, 82, 79, 76, 72, 69 >>

\* the fixed-point 1.0 of the exponentials
ExpOne == ExpTable[1]

\* math.exp(-d / temperature) in fixed point, d >= 0 in units of 0.05; like
\* the float it underflows to exactly 0 when d is large
RECURSIVE Exp(_)
Exp(d) ==
    IF d < Len(ExpTable) THEN ExpTable[d + 1]
    ELSE LET h == Exp(d \div 2)
         IN  IF h = 0 THEN 0 ELSE (h * Exp(d - (d \div 2))) \div ExpOne

\* the index whose value a dict comprehension over enumerate(acts) keeps for a
LastIndex(acts, a) ==
    CHOOSE i \in DOMAIN acts :
        acts[i] = a /\ \A j \in DOMAIN acts : j > i => acts[j] # a

\* (mutant) no uniform fallback when the clipped regrets sum to 0
regret_policy_no_fallback(st, acts) ==
    LET regrets == Get(st, "regret", EmptyDict)
        positives == [a \in Range(acts) |-> Max(Get(regrets, a, 0), 0)]
        total == SumValues(positives)
    IN  [num |-> positives, den |-> Max(total, 1)]

\* _regret_policy()
regret_policy(st, acts) ==
    LET regrets == Get(st, "regret", EmptyDict)
        positives == [a \in Range(acts) |-> Max(Get(regrets, a, 0), 0)]
        total == SumValues(positives)
    IN  IF total <= 0
        THEN [num |-> [a \in Range(acts) |-> 1], den |-> Len(acts)]
        ELSE [num |-> positives, den |-> total]

\* _softmax_policy(payoffs)
softmax_policy(payoffs, acts) ==
    LET values == [i \in DOMAIN acts |-> Get(payoffs, acts[i], 0)]
        max_val == IF acts = <<>> THEN 0
                   ELSE CHOOSE v \in Range(values) : \A w \in Range(values) : w <= v
        exps == [i \in DOMAIN acts |-> Exp(max_val - values[i])]
        total == IF SumSeq(exps) = 0 THEN ExpOne ELSE SumSeq(exps)
    IN  [num |-> [a \in Range(acts) |-> exps[LastIndex(acts, a)]], den |-> total]

(* A weight is a fraction whose numerator has two limbs, <<hi, lo>> for    *)
(* hi * EpsInv + lo, so that the floor 1e-6 is exact.                      *)

BigZero == <<0, 0>>

BigOf(n) == <<n \div EpsInv, n % EpsInv>>

BigTimesEpsInv(n) == <<n, 0>>

BigAdd(x, y) ==
    LET lo == x[2] + y[2]
    IN  <<x[1] + y[1] + (lo \div EpsInv), lo % EpsInv>>

BigLess(x, y) == x[1] < y[1] \/ (x[1] = y[1] /\ x[2] < y[2])

\* sum(weights.values()) over big numerators
RECURSIVE BigSumValues(_)
BigSumValues(d) ==
    IF DOMAIN d = {} THEN BigZero
    ELSE LET k == CHOOSE x \in DOMAIN d : TRUE
         IN  BigAdd(d[k], BigSumValues([x \in (DOMAIN d) \ {k} |-> d[x]]))

\* _normalize(weights): each weight divided by (the total or 1.0)
normalize(weights) ==
    LET total == BigSumValues(weights.num)
    IN  IF total = BigZero THEN weights
        ELSE [num |-> weights.num, den |-> total]

\* (mutant) the weight without the floor at 1e-6
UnflooredWeight(blended, d) == BigTimesEpsInv(blended)

\* max(blended, 1e-6) for the weight blended / d, as a numerator over d * EpsInv
FlooredWeight(blended, d) ==
    IF BigLess(BigTimesEpsInv(blended), BigOf(d)) THEN BigOf(d)
    ELSE BigTimesEpsInv(blended)

\* the dictionary "weights" of mixed_strategy, before it is normalized
BlendedWeights(st, acts, effective_payoffs) ==
    LET rp == regret_policy(st, acts)
        pp == softmax_policy(effective_payoffs, acts)
        d == MixDen * rp.den * pp.den
        blended(a) == MixNum * Get(rp.num, a, 0) * pp.den
                      + (MixDen - MixNum) * Get(pp.num, a, 0) * rp.den
    IN  [num |-> [a \in Range(acts) |-> FlooredWeight(blended(a), d)],
         den |-> BigTimesEpsInv(d)]

\* payoffs or self.baseline_payoffs(): None and {} are both falsy
EffectivePayoffs(payoffs, acts) ==
    IF payoffs = EmptyDict THEN baseline_payoffs(acts) ELSE payoffs

\* mixed_strategy(payoffs)
mixed_strategy(st, acts, payoffs) ==
    normalize(BlendedWeights(st, acts, EffectivePayoffs(payoffs, acts)))

\* (mutant) the action of the largest weight is always taken
ChoicesGreedy(distribution) ==
    {a \in DOMAIN distribution.num :
        \A b \in DOMAIN distribution.num :
            ~BigLess(distribution.num[a], distribution.num[b])}

\* the actions random.choices can return for a distribution: those of
\* positive weight
Choices(distribution) ==
    {a \in DOMAIN distribution.num : BigLess(BigZero, distribution.num[a])}

---------------------------------------------------------------------------
(* The caller's writes to the history file (bot_enhanced.py) *)

\* mark_tweet_as_replied(tweet_id, user, action): the entry is appended
\* unless the tweet is recorded already (replied_at is not modelled: no
\* operation of the model reads it)
mark_tweet_as_replied(file, tweet_id, user, action, ok) ==
    LET hist == load_history(file)
        replied == Get(hist, "replied_tweets", <<>>)
    IN  IF \E i \in DOMAIN replied : replied[i].tweet_id = tweet_id
        THEN file
        ELSE save_history(file,
                 Put(hist, "replied_tweets",
                     Append(replied, [tweet_id |-> tweet_id, user |-> user,
                                      action |-> action])),
                 ok)

\* mark_summary_posted(): last_summary_date is set to the current date
mark_summary_posted(file, today, ok) ==
    save_history(file, Put(load_history(file), "last_summary_date", today), ok)

---------------------------------------------------------------------------
(* Inputs *)

AllActions == {"reply", "quote", "reddit_post"}

\* the "actions" argument of the constructor: None, (), and two tuples
ActionArgs ==
    { NoActions, ActionsTuple(<<>>), ActionsTuple(<<"reply", "quote">>),
      ActionsTuple(<<"reply", "quote", "reddit_post">>) }

\* payoff vectors passed to update_regret: {reply: 2.0, quote: 1.0}, which
\* has no payoff for reddit_post, and {reply: 1.2, quote: 1.0, reddit_post: 1.1}
UpdatePayoffs ==
    { [reply |-> 40, quote |-> 20],
      [reply |-> 24, quote |-> 20, reddit_post |-> 22] }

\* payoff vectors passed to mixed_strategy and select_action: none (the
\* baseline is used), {reply: 2.0, quote: 1.0}, and one whose exponential
\* underflows, {reply: 0.0, quote: -1000.0}
QueryPayoffs ==
    { EmptyDict,
      [reply |-> 40, quote |-> 20],
      [reply |-> 0, quote |-> -20000] }

\* tweets passed to estimate_payoffs
Tweets ==
    { [text_len |-> 10],
      [engagement |-> [reply_count |-> 10, favorite_count |-> 20],
       has_question |-> TRUE, has_media |-> FALSE, has_video |-> FALSE,
       text_len |-> 100],
      [engagement |-> [retweet_count |-> 1200],
       has_question |-> FALSE, has_media |-> TRUE, has_video |-> TRUE,
       text_len |-> 300] }

\* the history file the bot finds on its first run: none
InitialHistories == {EmptyDict}

\* ids of the tweets the caller records in replied_tweets
TweetIds == {101}

\* the record of no call
Idle ==
    [op |-> "idle", e |-> 0, acts |-> NoActions, payoffs |-> EmptyDict,
     action |-> "", tweet |-> EmptyDict, actions |-> <<>>, before |-> EmptyDict,
     file |-> EmptyDict, result |-> EmptyDict, raised |-> FALSE,
     fault |-> "none"]

\* the record of a call of op on engine e that starts in the current state
Call(op, e) ==
    [Idle EXCEPT !.op = op, !.e = e, !.actions = actions[e],
                 !.before = state[e], !.file = history]

Constructed(e) == actions[e] # <<>>

\* the main script is not running: no run was started, or the last one ended
NoRun ==
    [pc |-> "done", runs |-> 0, sampled |-> FALSE, action |-> "",
     payoffs |-> EmptyDict, tweets |-> <<>>, selected |-> EmptyDict,
     success |-> FALSE, updates |-> 0, penalized |-> 0]

\* the two coroutines that run _run_main_cycle, and with it
\* ReplyEngine.process_responses: the scheduled task and ResponseBot.run_once
Callers == {"main_cycle", "run_once"}

\* no ReplyEngine was created.  responses is rate_limiter.responses, now
\* the clock, pc where each caller is in _process_single_response, and sent
\* the times of all calls of record_response
NoReplyEngine ==
    [max_per_hour |-> 0, mode |-> "log", responses |-> <<>>, now |-> 0,
     pc |-> [c \in Callers |-> "idle"], sent |-> <<>>]

\* the two coroutines that call run_once of one ScheduledTask: its
\* run_loop and Scheduler.run_task_now
TaskCallers == {"run_loop", "run_task_now"}

\* a ScheduledTask as __init__ leaves it, with no coroutine in run_once.
\* pc is where each caller is, func_calls the number of calls of self.func,
\* caller, step and result who took the last step of run_once, what it did
\* and what it returned, and prev the flag, the three counters and
\* func_calls before that step
NoTask ==
    [is_running |-> FALSE, total_runs |-> 0, successful_runs |-> 0,
     failed_runs |-> 0, pc |-> [c \in TaskCallers |-> "idle"],
     last_error |-> "None", func_calls |-> 0, caller |-> "none",
     step |-> "none", result |-> "none", prev |-> <<FALSE, 0, 0, 0, 0>>]

---------------------------------------------------------------------------
(* Operations.  Each is one call, made when the previous one has returned. *)

Init ==
    /\ actions = [e \in Engines |-> <<>>]
    /\ state = [e \in Engines |-> EmptyDict]
    /\ history \in InitialHistories
    /\ last = Idle
    /\ penalties = 0
    /\ updates = 0
    /\ run = NoRun
    /\ reply = NoReplyEngine
    /\ sched = NoTask

\* GameTheoryEngine(load_history, save_history, arg): __init__ and
\* _load_or_initialize_state
Construct(e, arg, ok) ==
    LET acts == EffectiveActions(arg)
        hist == load_history(history)
        game_state == InitialGameState(hist, acts)
    IN  /\ last = Idle
        /\ actions' = [actions EXCEPT ![e] = acts]
        /\ state' = [state EXCEPT ![e] = game_state]
        /\ history' = save_history(history, Put(hist, "game_theory", game_state), ok)
        /\ last' = [Call("construct", e) EXCEPT !.acts = arg]
        /\ UNCHANGED <<penalties, updates, run, asyncVars>>

\* engine e: update_regret(payoffs, chosen_action)
UpdateRegret(e, payoffs, chosen_action, ok) ==
    /\ last = Idle
    /\ Constructed(e)
    /\ Get(state[e], "iterations", 0) < MaxIter
    /\ updates < MaxIter
    /\ LET st == update_regret(state[e], actions[e], payoffs, chosen_action)
       IN  /\ state' = [state EXCEPT ![e] = st]
           /\ history' = persist_state(history, st, ok)
    /\ last' = [Call("update_regret", e) EXCEPT
                    !.payoffs = payoffs, !.action = chosen_action,
                    !.fault = IF ok THEN "none" ELSE "unsaved"]
    /\ updates' = updates + 1
    /\ UNCHANGED <<actions, penalties, run, asyncVars>>

\* engine e: penalize_failure(action)
PenalizeFailure(e, action, ok) ==
    /\ last = Idle
    /\ Constructed(e)
    /\ penalties < MaxPenalties
    /\ penalties' = penalties + 1
    /\ LET st == penalize_failure(state[e], action)
       IN  /\ state' = [state EXCEPT ![e] = st]
           /\ history' = persist_state(history, st, ok)
    /\ last' = [Call("penalize_failure", e) EXCEPT
                    !.action = action,
                    !.fault = IF ok THEN "none" ELSE "unsaved"]
    /\ UNCHANGED <<actions, updates, run, asyncVars>>

\* engine e: mixed_strategy(payoffs)
MixedStrategy(e, payoffs) ==
    /\ last = Idle
    /\ Constructed(e)
    /\ last' = [Call("mixed_strategy", e) EXCEPT
                    !.payoffs = payoffs,
                    !.result = mixed_strategy(state[e], actions[e], payoffs)]
    /\ UNCHANGED <<engineVars, penalties, updates, run, asyncVars>>

\* (mutant) select_action counts the action it draws in strategy_counts
SelectActionCounting(e, payoffs) ==
    /\ last = Idle
    /\ Constructed(e)
    /\ LET distribution ==
               mixed_strategy(state[e], actions[e],
                              EffectivePayoffs(payoffs, actions[e]))
           counts == Get(state[e], "strategy_counts", EmptyDict)
       IN  \E chosen \in Choices(distribution) :
               /\ last' = [Call("select_action", e) EXCEPT
                                !.payoffs = payoffs,
                                !.result = [chosen |-> chosen,
                                            distribution |-> distribution]]
               /\ state' = [state EXCEPT ![e] =
                                Put(state[e], "strategy_counts",
                                    Put(counts, chosen, Get(counts, chosen, 0) + 1))]
    /\ UNCHANGED <<actions, history, penalties, updates, run, asyncVars>>

\* engine e: select_action(payoffs); random.choices draws the action
SelectAction(e, payoffs) ==
    /\ last = Idle
    /\ Constructed(e)
    /\ LET distribution ==
               mixed_strategy(state[e], actions[e],
                              EffectivePayoffs(payoffs, actions[e]))
       IN  \E chosen \in Choices(distribution) :
               last' = [Call("select_action", e) EXCEPT
                            !.payoffs = payoffs,
                            !.result = [chosen |-> chosen,
                                        distribution |-> distribution]]
    /\ UNCHANGED <<engineVars, penalties, updates, run, asyncVars>>

\* engine e: baseline_payoffs()
BaselinePayoffs(e) ==
    /\ last = Idle
    /\ Constructed(e)
    /\ last' = [Call("baseline_payoffs", e) EXCEPT
                    !.result = baseline_payoffs(actions[e])]
    /\ UNCHANGED <<engineVars, penalties, updates, run, asyncVars>>

\* engine e: estimate_payoffs(tweet)
EstimatePayoffs(e, tweet) ==
    /\ last = Idle
    /\ Constructed(e)
    /\ last' = [Call("estimate_payoffs", e) EXCEPT
                    !.tweet = tweet,
                    !.result = estimate_payoffs(tweet, actions[e])]
    /\ UNCHANGED <<engineVars, penalties, updates, run, asyncVars>>

\* engine e: diagnostics()
Diagnostics(e) ==
    /\ last = Idle
    /\ Constructed(e)
    /\ last' = [Call("diagnostics", e) EXCEPT
                    !.result = diagnostics(state[e], actions[e])]
    /\ UNCHANGED <<engineVars, penalties, updates, run, asyncVars>>

\* the caller: mark_tweet_as_replied(tweet_id, user, action)
MarkTweetAsReplied(tweet_id, action, ok) ==
    /\ last = Idle
    /\ history' = mark_tweet_as_replied(history, tweet_id, "someone", action, ok)
    /\ last' = [Idle EXCEPT !.op = "mark_tweet_as_replied", !.action = action,
                            !.file = history]
    /\ UNCHANGED <<actions, state, penalties, updates, run, asyncVars>>

\* the caller: mark_summary_posted()
MarkSummaryPosted(ok) ==
    /\ last = Idle
    /\ history' = mark_summary_posted(history, "today", ok)
    /\ last' = [Idle EXCEPT !.op = "mark_summary_posted", !.file = history]
    /\ UNCHANGED <<actions, state, penalties, updates, run, asyncVars>>

\* the caller takes the result and moves on
Return ==
    /\ last # Idle
    /\ last' = Idle
    /\ UNCHANGED <<engineVars, penalties, updates, run, asyncVars>>

Next ==
    \/ \E e \in Engines, arg \in ActionArgs : Construct(e, arg, TRUE)
    \/ \E e \in Engines, payoffs \in UpdatePayoffs, a \in AllActions :
           UpdateRegret(e, payoffs, a, TRUE)
    \/ \E e \in Engines, a \in AllActions : PenalizeFailure(e, a, TRUE)
    \/ \E e \in Engines, payoffs \in QueryPayoffs : MixedStrategy(e, payoffs)
    \/ \E e \in Engines, payoffs \in QueryPayoffs : SelectAction(e, payoffs)
    \/ \E e \in Engines : BaselinePayoffs(e)
    \/ \E e \in Engines, tweet \in Tweets : EstimatePayoffs(e, tweet)
    \/ \E e \in Engines : Diagnostics(e)
    \/ \E id \in TweetIds : MarkTweetAsReplied(id, "reply", TRUE)
    \/ MarkSummaryPosted(TRUE)
    \/ Return

Spec == Init /\ [][Next]_vars

---------------------------------------------------------------------------
(* A loader or a saver that raises.  The engine has no try: the exception  *)
(* leaves the method at the call of the loader or the saver, and the       *)
(* saver that raised has written nothing.                                  *)

\* which of the two injected functions raises
Faults == {"loader", "saver"}

\* what may go wrong in _persist_state: the loader or the saver raises, or
\* save_history catches an IOError and returns without having written
FailedSaves == Faults \cup {"unsaved"}

\* GameTheoryEngine(load_history, save_history, arg) where the loader or the
\* saver raises in _load_or_initialize_state: self.state is not assigned
\* and the caller gets no engine
ConstructRaising(e, arg, fault) ==
    /\ last = Idle
    /\ last' = [Call("construct", e) EXCEPT !.acts = arg, !.raised = TRUE,
                                            !.fault = fault]
    /\ UNCHANGED <<engineVars, penalties, updates, run, asyncVars>>

\* (mutant) update_regret catches the exception and returns
UpdateRegretCatching(e, payoffs, chosen_action, fault) ==
    /\ last = Idle
    /\ Constructed(e)
    /\ Get(state[e], "iterations", 0) < MaxIter
    /\ state' = [state EXCEPT ![e] =
                     update_regret(state[e], actions[e], payoffs, chosen_action)]
    /\ last' = [Call("update_regret", e) EXCEPT
                    !.payoffs = payoffs, !.action = chosen_action,
                    !.fault = fault]
    /\ UNCHANGED <<actions, history, penalties, updates, run, asyncVars>>

\* (mutant) update_regret restores self.state when _persist_state raises
UpdateRegretRollingBack(e, payoffs, chosen_action, fault) ==
    /\ last = Idle
    /\ Constructed(e)
    /\ Get(state[e], "iterations", 0) < MaxIter
    /\ last' = [Call("update_regret", e) EXCEPT
                    !.payoffs = payoffs, !.action = chosen_action,
                    !.raised = TRUE, !.fault = fault]
    /\ UNCHANGED <<engineVars, penalties, updates, run, asyncVars>>

\* engine e: update_regret(payoffs, chosen_action) where the loader or the
\* saver raises in _persist_state, after self.state was updated
UpdateRegretRaising(e, payoffs, chosen_action, fault) ==
    /\ last = Idle
    /\ Constructed(e)
    /\ Get(state[e], "iterations", 0) < MaxIter
    /\ state' = [state EXCEPT ![e] =
                     update_regret(state[e], actions[e], payoffs, chosen_action)]
    /\ last' = [Call("update_regret", e) EXCEPT
                    !.payoffs = payoffs, !.action = chosen_action,
                    !.raised = TRUE, !.fault = fault]
    /\ UNCHANGED <<actions, history, penalties, updates, run, asyncVars>>

\* engine e: penalize_failure(action) where the loader or the saver raises
\* in _persist_state, after self.state was updated
PenalizeFailureRaising(e, action, fault) ==
    /\ last = Idle
    /\ Constructed(e)
    /\ penalties < MaxPenalties
    /\ penalties' = penalties + 1
    /\ state' = [state EXCEPT ![e] = penalize_failure(state[e], action)]
    /\ last' = [Call("penalize_failure", e) EXCEPT
                    !.action = action, !.raised = TRUE, !.fault = fault]
    /\ UNCHANGED <<actions, history, updates, run, asyncVars>>

NextFaults ==
    \/ \E e \in Engines, arg \in ActionArgs : Construct(e, arg, TRUE)
    \/ \E e \in Engines, payoffs \in UpdatePayoffs, a \in AllActions,
           ok \in BOOLEAN : UpdateRegret(e, payoffs, a, ok)
    \/ \E e \in Engines, a \in AllActions, ok \in BOOLEAN :
           PenalizeFailure(e, a, ok)
    \/ \E e \in Engines, arg \in ActionArgs, fault \in Faults :
           ConstructRaising(e, arg, fault)
    \/ \E e \in Engines, payoffs \in UpdatePayoffs, a \in AllActions,
           fault \in Faults : UpdateRegretRaising(e, payoffs, a, fault)
    \/ \E e \in Engines, a \in AllActions, fault \in Faults :
           PenalizeFailureRaising(e, a, fault)
    \/ Return

SpecFaults == Init /\ [][NextFaults]_vars

---------------------------------------------------------------------------
(* The bot's main script (bot_enhanced.py): the helpers it calls *)

\* has_replied_to_tweet(tweet_id)
has_replied_to_tweet(file, tweet_id) ==
    LET replied == Get(load_history(file), "replied_tweets", <<>>)
    IN  \E i \in DOMAIN replied : replied[i].tweet_id = tweet_id

\* has_posted_summary_today(): last_summary_date is set and is today's date
has_posted_summary_today(file, today) ==
    LET hist == load_history(file)
    IN  /\ "last_summary_date" \in DOMAIN hist
        /\ hist["last_summary_date"] = today

\* record_reddit_post(subreddit, tweet_id): the entry is appended to
\* reddit_posts (of which the last 200 are kept: the model stays below)
record_reddit_post(file, subreddit, tweet_id, ok) ==
    LET hist == load_history(file)
        reddit_posts == Get(hist, "reddit_posts", <<>>)
    IN  IF subreddit = "" THEN file
        ELSE save_history(file,
                 Put(hist, "reddit_posts",
                     Append(reddit_posts,
                            [subreddit |-> subreddit, tweet_id |-> tweet_id])),
                 ok)

\* total_engagement of select_optimal_tweet
SelectionEngagement(tweet) ==
    LET engagement == Get(tweet, "engagement", EmptyDict)
    IN  Get(engagement, "reply_count", 0) * 10
        + Get(engagement, "favorite_count", 0)
        + Get(engagement, "quote_count", 0) * 5
        + Get(engagement, "retweet_count", 0) * 3

\* the score select_optimal_tweet gives a tweet, before random.randint is added
SelectionScore(tweet) ==
    LET te == SelectionEngagement(tweet)
        text_len == Get(tweet, "text_len", 0)
    IN  (IF Get(tweet, "has_question", FALSE) THEN 50 ELSE 0)
        + (IF 10 < te /\ te < 1000 THEN 30 ELSE IF te <= 10 THEN 20 ELSE 0)
        + (IF Get(tweet, "has_media", FALSE) THEN -20 ELSE 0)
        + (IF 50 < text_len /\ text_len < 280 THEN 15 ELSE 0)

\* random.randint(0, 20)
RandomInts == 0 .. 20

\* scored_tweets[:5]
TopCandidates == 5

\* the tweets select_optimal_tweet(tweets) can return; the empty record is
\* None.  Tweets replied to and the bot's own tweets are skipped, the rest
\* are sorted by score (the sort is stable), one of the first five is drawn;
\* when none is left, random.choice(tweets) draws from the whole list
select_optimal_tweet(file, tweets, bot_username) ==
    LET kept == {i \in DOMAIN tweets :
                    /\ ~has_replied_to_tweet(file, tweets[i]["id"])
                    /\ ~(bot_username # "" /\ Get(tweets[i], "user", "") = bot_username)}
        score(i, r) == SelectionScore(tweets[i]) + r[i]
        before(j, i, r) == \/ score(j, r) > score(i, r)
                           \/ (score(j, r) = score(i, r) /\ j < i)
        top(r) == {i \in kept :
                      Cardinality({j \in kept : before(j, i, r)}) < TopCandidates}
    IN  IF tweets = <<>> THEN {EmptyDict}
        ELSE IF kept = {} THEN Range(tweets)
        ELSE {tweets[i] : i \in {k \in kept : \E r \in [kept -> RandomInts] : k \in top(r)}}

---------------------------------------------------------------------------
(* The bot's main script: inputs *)

\* the engine the script constructs
game_engine == CHOOSE e \in Engines : TRUE

\* datetime.now().date(), the same for every run of the model
Today == "today"

\* what get_bot_username() returns: the name, or None ("") when the API fails
BotUsernames == {"", "response_bot"}

Tweet101 ==
    [id |-> 101, user |-> "alice", text_len |-> 100,
     engagement |-> [reply_count |-> 10, favorite_count |-> 20],
     has_question |-> TRUE, has_media |-> FALSE, has_video |-> FALSE]

Tweet102 ==
    [id |-> 102, user |-> "response_bot", text_len |-> 30,
     engagement |-> [retweet_count |-> 1200],
     has_question |-> FALSE, has_media |-> TRUE, has_video |-> TRUE]

\* what fetch_home_timeline() returns: no tweet (also after a request
\* error), one tweet, or that tweet and one of the bot's own
Timelines == {<<>>, <<Tweet101>>, <<Tweet101, Tweet102>>}

---------------------------------------------------------------------------
(* The bot's main script: its steps *)

\* the engine's state and the file after the feedback of a round:
\* update_regret(payoffs, action) if updated, else penalize_failure(action)
Feedback(file, updated, payoffs, action) ==
    LET st == IF updated
              THEN update_regret(state[game_engine], actions[game_engine],
                                 payoffs, action)
              ELSE penalize_failure(state[game_engine], action)
    IN  [state |-> st, file |-> persist_state(file, st, TRUE)]

\* the run ends after update_regret (updated) or penalize_failure was called,
\* the external action having reported success
EndRound(file, updated, payoffs, success) ==
    LET fb == Feedback(file, updated, payoffs, run.action)
    IN  /\ state' = [state EXCEPT ![game_engine] = fb.state]
        /\ history' = fb.file
        /\ penalties' = penalties + (IF updated THEN 0 ELSE 1)
        /\ updates' = updates + (IF updated THEN 1 ELSE 0)
        /\ run' = [run EXCEPT !.pc = "done", !.success = success,
                              !.updates = @ + (IF updated THEN 1 ELSE 0),
                              !.penalized = @ + (IF updated THEN 0 ELSE 1)]

\* the script starts: game_engine = GameTheoryEngine(load_history, save_history)
StartRun ==
    LET acts == EffectiveActions(NoActions)
        hist == load_history(history)
        game_state == InitialGameState(hist, acts)
    IN  /\ run.pc = "done"
        /\ run.runs < MaxRuns
        /\ actions' = [actions EXCEPT ![game_engine] = acts]
        /\ state' = [state EXCEPT ![game_engine] = game_state]
        /\ history' = save_history(history, Put(hist, "game_theory", game_state), TRUE)
        /\ run' = [NoRun EXCEPT !.pc = "started", !.runs = run.runs + 1]
        /\ UNCHANGED <<last, penalties, updates, asyncVars>>

\* if not has_posted_summary_today(): post_daily_summary(), which marks the
\* summary as posted when it was posted; no action is sampled in this run
PostDailySummary(posted) ==
    /\ run.pc = "started"
    /\ ~has_posted_summary_today(history, Today)
    /\ history' = IF posted THEN mark_summary_posted(history, Today, TRUE)
                  ELSE history
    /\ run' = [run EXCEPT !.pc = "done"]
    /\ UNCHANGED <<actions, state, last, penalties, updates, asyncVars>>

\* else: action, base_distribution = select_action(baseline_payoffs())
Roll ==
    /\ run.pc = "started"
    /\ has_posted_summary_today(history, Today)
    /\ LET payoffs == baseline_payoffs(actions[game_engine])
           distribution ==
               mixed_strategy(state[game_engine], actions[game_engine],
                              EffectivePayoffs(payoffs, actions[game_engine]))
       IN  \E action \in Choices(distribution) :
               run' = [run EXCEPT !.pc = "rolled", !.sampled = TRUE,
                                  !.action = action, !.payoffs = payoffs]
    /\ UNCHANGED <<engineVars, last, penalties, updates, asyncVars>>

\* if action == 'reddit_post': post_reddit_inspired_tweet() and the feedback;
\* else: tweets = fetch_home_timeline(), and the penalty if there is none
ActOrFetch(tweets, success) ==
    /\ run.pc = "rolled"
    /\ IF run.action = "reddit_post"
       THEN EndRound(IF success
                     THEN record_reddit_post(history, "programming", 900, TRUE)
                     ELSE history,
                     success, run.payoffs, success)
       ELSE IF tweets = <<>>
       THEN EndRound(history, FALSE, run.payoffs, FALSE)
       ELSE /\ run' = [run EXCEPT !.pc = "fetched", !.tweets = tweets]
            /\ UNCHANGED <<state, history, penalties, updates>>
    /\ UNCHANGED <<actions, last, asyncVars>>

\* selected_tweet = select_optimal_tweet(tweets): the penalty if it is None,
\* else payoffs = estimate_payoffs(selected_tweet)
SelectOptimalTweet(bot_username) ==
    /\ run.pc = "fetched"
    /\ \E selected \in select_optimal_tweet(history, run.tweets, bot_username) :
           IF selected = EmptyDict
           THEN EndRound(history, FALSE, run.payoffs, FALSE)
           ELSE /\ run' = [run EXCEPT
                               !.pc = "selected", !.selected = selected,
                               !.payoffs = estimate_payoffs(selected,
                                                            actions[game_engine])]
                /\ UNCHANGED <<state, history, penalties, updates>>
    /\ UNCHANGED <<actions, last, asyncVars>>

\* (mutant) a failed reply or quote ends the run without the penalty
PostTweetUnpenalized(success) ==
    /\ run.pc = "selected"
    /\ IF success /\ run.action \in {"reply", "quote"}
       THEN EndRound(mark_tweet_as_replied(history, run.selected["id"],
                                           run.selected["user"], run.action, TRUE),
                     TRUE, run.payoffs, TRUE)
       ELSE /\ run' = [run EXCEPT !.pc = "done"]
            /\ UNCHANGED <<state, history, penalties, updates>>
    /\ UNCHANGED <<actions, last, asyncVars>>

\* reply_to_tweet or quote_tweet for the action, which records the tweet
\* when it was posted, and the feedback: update_regret(payoffs, action) if
\* it returned True, else penalize_failure(action)
PostTweet(success) ==
    LET posted == success /\ run.action \in {"reply", "quote"}
    IN  /\ run.pc = "selected"
        /\ EndRound(IF posted
                    THEN mark_tweet_as_replied(history, run.selected["id"],
                                               run.selected["user"], run.action, TRUE)
                    ELSE history,
                    posted, run.payoffs, posted)
        /\ UNCHANGED <<actions, last, asyncVars>>

NextMain ==
    \/ StartRun
    \/ \E posted \in BOOLEAN : PostDailySummary(posted)
    \/ Roll
    \/ \E tweets \in Timelines, success \in BOOLEAN : ActOrFetch(tweets, success)
    \/ \E bot_username \in BotUsernames : SelectOptimalTweet(bot_username)
    \/ \E success \in BOOLEAN : PostTweet(success)

SpecMain == Init /\ [][NextMain]_vars

---------------------------------------------------------------------------
(* Properties *)

\* the calls that persist the engine's state
Persisting == {"construct", "update_regret", "penalize_failure"}

Regret(st) == Get(st, "regret", EmptyDict)
Counts(st) == Get(st, "strategy_counts", EmptyDict)
Iterations(st) == Get(st, "iterations", 0)

\* the engine's record in the history file
Stored == Get(history, "game_theory", EmptyDict)

\* C1: from the default-initialised engine, after any calls of update_regret
\* and penalize_failure, every configured action has a regret, and it is
\* >= 0, in memory and in the history file
RegretNonNegative ==
    \A e \in Engines :
        Constructed(e) =>
            \A a \in Range(actions[e]) :
                /\ a \in DOMAIN Regret(state[e])
                /\ Regret(state[e])[a] >= 0
                /\ a \in DOMAIN Regret(Stored)
                /\ Regret(Stored)[a] >= 0

\* C1 witness: penalize_failure returned for an action whose regret was
\* positive but smaller than the penalty, after an update
RegretNonNegativeWitness ==
    /\ last.op = "penalize_failure"
    /\ Iterations(last.before) >= 1
    /\ last.action \in DOMAIN Regret(last.before)
    /\ 0 < Regret(last.before)[last.action]
    /\ Regret(last.before)[last.action] < failure_penalty

\* C2: mixed_strategy returns a distribution over exactly the configured
\* actions, every probability > 0, the probabilities summing to 1
DistributionValid ==
    last.op = "mixed_strategy" =>
        LET d == last.result
        IN  /\ DOMAIN d.num = Range(actions[last.e])
            /\ BigLess(BigZero, d.den)
            /\ \A a \in DOMAIN d.num : BigLess(BigZero, d.num[a])
            /\ BigSumValues(d.num) = d.den

\* C2 witness: mixed_strategy returned where an action has regret 0 beside
\* a positive one and its payoff's exponential underflows, so that only the
\* floor keeps its weight positive
DistributionValidWitness ==
    /\ last.op = "mixed_strategy"
    /\ last.payoffs = [reply |-> 0, quote |-> -20000]
    /\ Regret(last.before)["reply"] > 0
    /\ Regret(last.before)["quote"] = 0
    /\ BigLess(last.result.num["quote"], BigTimesEpsInv(1))

\* C3: update_regret sets the regret of every configured action a to
\* max(0, regret[a] + (payoffs[a] - payoffs[chosen_action])), a payoff that
\* is missing counting as 0
UpdateRegretFormula ==
    last.op = "update_regret" =>
        \A a \in Range(actions[last.e]) :
            Regret(state[last.e])[a] =
                Max(0, Get(Regret(last.before), a, 0)
                       + (Get(last.payoffs, a, 0)
                          - Get(last.payoffs, last.action, 0)))

\* C3 witness: update_regret returned having raised one regret and floored
\* another, which would have become negative
UpdateRegretFormulaWitness ==
    /\ last.op = "update_regret"
    /\ \E a \in Range(actions[last.e]) :
           Regret(state[last.e])[a] > Regret(last.before)[a]
    /\ \E a \in Range(actions[last.e]) :
           /\ Regret(last.before)[a] > 0
           /\ Regret(last.before)[a] + Get(last.payoffs, a, 0)
                  - Get(last.payoffs, last.action, 0) < 0
           /\ Regret(state[last.e])[a] = 0

\* C4: when chosen_action has a payoff, update_regret leaves its regret as
\* it was and raises the regret of every configured action that pays more
\* by exactly the difference of the payoffs
UpdateRegretRaisesBetter ==
    (last.op = "update_regret" /\ last.action \in DOMAIN last.payoffs) =>
        /\ (last.action \in DOMAIN Regret(state[last.e]))
               = (last.action \in DOMAIN Regret(last.before))
        /\ Get(Regret(state[last.e]), last.action, 0)
               = Get(Regret(last.before), last.action, 0)
        /\ \A a \in Range(actions[last.e]) \cap DOMAIN last.payoffs :
               last.payoffs[a] > last.payoffs[last.action] =>
                   Regret(state[last.e])[a] =
                       Regret(last.before)[a]
                       + (last.payoffs[a] - last.payoffs[last.action])

\* C4 witness: the payoffs {reply: 2.0, quote: 1.0} with quote chosen, from
\* positive regrets: reply is 1.0 higher, quote is as before
UpdateRegretRaisesBetterWitness ==
    /\ last.op = "update_regret"
    /\ last.payoffs = [reply |-> 40, quote |-> 20]
    /\ last.action = "quote"
    /\ Regret(last.before)["reply"] > 0
    /\ Regret(last.before)["quote"] > 0
    /\ Regret(state[last.e])["reply"] = Regret(last.before)["reply"] + 20
    /\ Regret(state[last.e])["quote"] = Regret(last.before)["quote"]

IterationsCountUpdates ==
    /\ last.op = "update_regret" =>
           Iterations(state[last.e]) = Iterations(last.before) + 1
    /\ last.op \in {"penalize_failure", "baseline_payoffs", "select_action",
                    "mixed_strategy", "estimate_payoffs", "diagnostics"} =>
           /\ ("iterations" \in DOMAIN state[last.e])
                  = ("iterations" \in DOMAIN last.before)
           /\ Iterations(state[last.e]) = Iterations(last.before)

\* C6 witness: the second update_regret returned, after a penalty
IterationsCountUpdatesWitness ==
    /\ last.op = "update_regret"
    /\ Iterations(last.before) = 1
    /\ penalties = 1

\* C7: update_regret raises the strategy count of chosen_action by 1 and
\* leaves the other counts; penalize_failure leaves all counts
StrategyCountOfChosen ==
    /\ last.op = "update_regret" =>
           LET old == Counts(last.before)
               new == Counts(state[last.e])
           IN  /\ DOMAIN new = (DOMAIN old) \cup {last.action}
               /\ new[last.action] = Get(old, last.action, 0) + 1
               /\ \A a \in (DOMAIN old) \ {last.action} : new[a] = old[a]
    /\ last.op = "penalize_failure" =>
           /\ "strategy_counts" \in DOMAIN state[last.e]
           /\ "strategy_counts" \in DOMAIN last.before
           /\ Counts(state[last.e]) = Counts(last.before)

\* C7 witness: update_regret returned for an action chosen before, among
\* three configured actions
StrategyCountOfChosenWitness ==
    /\ last.op = "update_regret"
    /\ last.action = "quote"
    /\ Counts(last.before) = [reply |-> 1, quote |-> 2, reddit_post |-> 1]
    /\ Counts(state[last.e]) = [reply |-> 1, quote |-> 3, reddit_post |-> 1]

\* C8: an engine constructed from the history file an earlier engine with
\* the same actions left has that engine's regret, strategy counts and
\* iterations, and constructing it leaves the file as it was
RoundTrip ==
    (/\ last.op = "construct"
     /\ last.actions # <<>>
     /\ Range(EffectiveActions(last.acts)) = Range(last.actions)) =>
        /\ state[last.e] = last.before
        /\ history = last.file

\* C8 witness: an engine is constructed after an earlier one with the same
\* actions made an update and a penalty that left a positive regret
RoundTripWitness ==
    /\ last.op = "construct"
    /\ last.actions = EffectiveActions(last.acts)
    /\ Iterations(last.before) >= 1
    /\ penalties >= 1
    /\ \E a \in DOMAIN Regret(last.before) : Regret(last.before)[a] > 0

\* C9: after construction, update_regret and penalize_failure the
\* game_theory record of the history file is the engine's in-memory state
StoredIsInMemory ==
    last.op \in Persisting =>
        /\ "game_theory" \in DOMAIN history
        /\ history["game_theory"] = state[last.e]

\* C9 witness: penalize_failure returned having lowered a regret
StoredIsInMemoryWitness ==
    /\ last.op = "penalize_failure"
    /\ Regret(state[last.e])[last.action] < Get(Regret(last.before), last.action, 0)
    /\ Regret(state[last.e])[last.action] > 0

\* C10: construction, update_regret and penalize_failure save the record
\* the loader returns with only game_theory replaced: every other key keeps
\* the value the file held when the call was made
SiblingsKept ==
    last.op \in Persisting =>
        LET loaded == load_history(last.file)
        IN  /\ (DOMAIN history) \ {"game_theory"} = (DOMAIN loaded) \ {"game_theory"}
            /\ \A k \in (DOMAIN last.file) \ {"game_theory"} :
                   history[k] = last.file[k]
            /\ \A k \in (DOMAIN loaded) \ {"game_theory"} :
                   history[k] = loaded[k]

\* C10 witness: update_regret returned where the file held the engine's
\* record, a tweet the caller recorded in replied_tweets and a summary date
SiblingsKeptWitness ==
    /\ last.op = "update_regret"
    /\ "game_theory" \in DOMAIN last.file
    /\ Len(last.file["replied_tweets"]) > 0
    /\ "last_summary_date" \in DOMAIN last.file
    /\ Len(history["replied_tweets"]) > 0

\* C11: constructing the engine with an empty action tuple fails: the call
\* raises, no engine state is loaded and the history file is not written
EmptyActionsRejected ==
    (last.op = "construct" /\ last.acts = ActionsTuple(<<>>)) =>
        /\ last.raised
        /\ actions[last.e] = last.actions
        /\ state[last.e] = last.before
        /\ history = last.file

\* C12: the constructor gives every configured action that the loaded
\* game_theory record lacks the regret 0 and the strategy count 1, and
\* iterations 0 if the record has none; it keeps what the record holds; and
\* the file holds the resulting record when the constructor returns
ConstructionDefaults ==
    last.op = "construct" =>
        LET loaded == Get(last.file, "game_theory", EmptyDict)
            old_regret == Get(loaded, "regret", EmptyDict)
            old_counts == Get(loaded, "strategy_counts", EmptyDict)
            st == state[last.e]
        IN  /\ \A a \in Range(actions[last.e]) :
                   /\ a \in DOMAIN Regret(st)
                   /\ Regret(st)[a] = IF a \in DOMAIN old_regret
                                      THEN old_regret[a] ELSE 0
                   /\ a \in DOMAIN Counts(st)
                   /\ Counts(st)[a] = IF a \in DOMAIN old_counts
                                      THEN old_counts[a] ELSE 1
            /\ "iterations" \in DOMAIN st
            /\ st["iterations"] = IF "iterations" \in DOMAIN loaded
                                  THEN loaded["iterations"] ELSE 0
            /\ "game_theory" \in DOMAIN history
            /\ history["game_theory"] = st

\* C12 witness: an engine with three actions is constructed from the record
\* of an engine with two, which holds a positive regret and an iteration
ConstructionDefaultsWitness ==
    /\ last.op = "construct"
    /\ actions[last.e] = <<"reply", "quote", "reddit_post">>
    /\ "game_theory" \in DOMAIN last.file
    /\ DOMAIN Regret(last.file["game_theory"]) = {"reply", "quote"}
    /\ Regret(last.file["game_theory"])["reply"] > 0
    /\ Iterations(last.file["game_theory"]) >= 1
    /\ Regret(state[last.e])["reply"] = Regret(last.file["game_theory"])["reply"]
    /\ Regret(state[last.e])["reddit_post"] = 0
    /\ Counts(state[last.e])["reddit_post"] = 1

\* C13: in every state in which the engine can be called, its regret
\* policy gives each of the N configured actions 1/N when the clipped
\* regrets sum to 0, and max(regret[a], 0) over that sum otherwise
RegretPolicyShape ==
    \A e \in Engines :
        (Constructed(e) /\ last = Idle) =>
            LET acts == Range(actions[e])
                clipped == [a \in acts |-> Max(Get(Regret(state[e]), a, 0), 0)]
                total == SumValues(clipped)
                policy == regret_policy(state[e], actions[e])
            IN  /\ DOMAIN policy.num = acts
                /\ policy.den > 0
                /\ \A a \in acts :
                       IF total = 0
                       THEN policy.num[a] * Len(actions[e]) = policy.den
                       ELSE policy.num[a] * total = clipped[a] * policy.den

\* C13 witness: mixed_strategy returned in a state where an update and a
\* penalty have left every regret at 0
RegretPolicyShapeWitness ==
    /\ last.op = "mixed_strategy"
    /\ Iterations(last.before) >= 1
    /\ penalties >= 1
    /\ \A a \in Range(last.actions) : Regret(last.before)[a] = 0
    /\ \A a \in Range(last.actions) :
           regret_policy(last.before, last.actions).num[a] * Len(last.actions)
               = regret_policy(last.before, last.actions).den

\* C14: select_action, mixed_strategy, estimate_payoffs, baseline_payoffs
\* and diagnostics leave the engine's state and the history file as they
\* were, and what mixed_strategy and estimate_payoffs return is determined
\* by the state and the argument
ReadOnlyQueries ==
    last.op \in {"select_action", "mixed_strategy", "estimate_payoffs",
                 "baseline_payoffs", "diagnostics"} =>
        /\ state[last.e] = last.before
        /\ actions[last.e] = last.actions
        /\ history = last.file
        /\ last.op = "mixed_strategy" =>
               last.result = mixed_strategy(last.before, last.actions, last.payoffs)
        /\ last.op = "estimate_payoffs" =>
               last.result = estimate_payoffs(last.tweet, last.actions)

\* C14 witness: select_action returned in a state that holds a positive
\* regret, a raised strategy count and an iteration
ReadOnlyQueriesWitness ==
    /\ last.op = "select_action"
    /\ Iterations(last.before) >= 1
    /\ \E a \in Range(last.actions) : Regret(last.before)[a] > 0
    /\ Counts(last.before)[last.result.chosen] > 1
    /\ "game_theory" \in DOMAIN last.file

\* C15: select_action returns a configured action, and in every state in
\* which the engine can be called, for every payoff vector, it can return
\* each configured action
SelectActionSupport ==
    /\ last.op = "select_action" =>
           last.result.chosen \in Range(actions[last.e])
    /\ \A e \in Engines :
           (Constructed(e) /\ last = Idle) =>
               \A payoffs \in QueryPayoffs :
                   Choices(mixed_strategy(state[e], actions[e],
                                          EffectivePayoffs(payoffs, actions[e])))
                       = Range(actions[e])

\* C15 witness: select_action returned the action whose regret is 0 beside
\* a positive one and whose payoff's exponential underflows
SelectActionSupportWitness ==
    /\ last.op = "select_action"
    /\ last.payoffs = [reply |-> 0, quote |-> -20000]
    /\ Regret(last.before)["reply"] > 0
    /\ Regret(last.before)["quote"] = 0
    /\ last.result.chosen = "quote"

\* C16: when the main script samples its action, each of reply, quote and
\* reddit_post can be the action select_action returns
MainDecidesAmongThree ==
    (run.pc = "started" /\ has_posted_summary_today(history, Today)) =>
        \A a \in {"reply", "quote", "reddit_post"} :
            a \in Choices(mixed_strategy(state[game_engine], actions[game_engine],
                                         baseline_payoffs(actions[game_engine])))

\* C17: the tweet select_optimal_tweet returned to the main script is not
\* recorded in replied_tweets
NeverSelectsReplied ==
    run.pc = "selected" => ~has_replied_to_tweet(history, run.selected["id"])

\* C18: a run that sampled an action calls, by its end and not before the
\* external action was attempted, exactly one of update_regret and
\* penalize_failure: update_regret iff the external action reported
\* success; a run that sampled none calls neither
OneFeedbackPerRoll ==
    /\ run.pc # "done" => run.updates = 0 /\ run.penalized = 0
    /\ ~run.sampled => run.updates = 0 /\ run.penalized = 0
    /\ (run.pc = "done" /\ run.sampled) =>
           /\ run.updates + run.penalized = 1
           /\ (run.updates = 1) = run.success

\* C18 witness: a run ended whose reply or quote to the selected tweet
\* failed, after a run whose action succeeded
OneFeedbackPerRollWitness ==
    /\ run.pc = "done"
    /\ run.sampled
    /\ run.selected # EmptyDict
    /\ ~run.success
    /\ run.penalized = 1
    /\ Iterations(state[game_engine]) >= 1

\* C19: with a loader and a saver that succeed, penalize_failure can be
\* called in every state of a constructed engine with every action
\* identifier, returns without raising, and leaves the action with a regret
\* and the engine's state in the history file
PenalizeAlwaysSucceeds ==
    /\ \A e \in Engines :
           (Constructed(e) /\ last = Idle /\ penalties < MaxPenalties) =>
               \A a \in AllActions : ENABLED PenalizeFailure(e, a, TRUE)
    /\ last.op = "penalize_failure" =>
           /\ ~last.raised
           /\ last.action \in DOMAIN Regret(state[last.e])
           /\ "game_theory" \in DOMAIN history
           /\ history["game_theory"] = state[last.e]

\* C19 witness: penalize_failure returned for an action that is not
\* configured and had no regret, after an update
PenalizeAlwaysSucceedsWitness ==
    /\ last.op = "penalize_failure"
    /\ last.action \notin Range(last.actions)
    /\ last.action \notin DOMAIN Regret(last.before)
    /\ Iterations(last.before) >= 1
    /\ Regret(state[last.e])[last.action] = 0

\* C20: when the loader or the saver raises during construction,
\* update_regret or penalize_failure, the call raises to its caller; it
\* writes nothing to the history file, and a construction gives no engine
ErrorsPropagate ==
    (last.op \in Persisting /\ last.fault \in Faults) =>
        /\ last.raised
        /\ history = last.file
        /\ last.op = "construct" =>
               /\ actions[last.e] = last.actions
               /\ state[last.e] = last.before

\* C20 witness: the saver raised in update_regret, which had changed a
\* regret in memory that the file does not hold
ErrorsPropagateWitness ==
    /\ last.op = "update_regret"
    /\ last.fault = "saver"
    /\ last.raised
    /\ Regret(state[last.e]) # Regret(last.before)
    /\ Regret(Stored) = Regret(last.before)

\* C27: when _persist_state fails in update_regret or penalize_failure (the
\* loader or the saver raises, or the saver returns without writing), the
\* engine's memory holds the new regret, strategy counts and iterations and
\* the history file holds what it held before the call
NoRollback ==
    (last.op \in {"update_regret", "penalize_failure"}
       /\ last.fault \in FailedSaves) =>
        /\ state[last.e] =
               IF last.op = "update_regret"
               THEN update_regret(last.before, last.actions, last.payoffs,
                                  last.action)
               ELSE penalize_failure(last.before, last.action)
        /\ history = last.file
        /\ last.raised = (last.fault \in Faults)

\* C27 witness: save_history wrote nothing and returned in the second
\* update_regret: memory is one iteration and one count ahead of the file,
\* with another regret
NoRollbackWitness ==
    /\ last.op = "update_regret"
    /\ last.fault = "unsaved"
    /\ ~last.raised
    /\ Iterations(state[last.e]) = 2
    /\ Iterations(Stored) = 1
    /\ Counts(state[last.e]) # Counts(Stored)
    /\ Regret(state[last.e]) # Regret(Stored)

\* C21: over the calls made on a history file by one engine at a time,
\* constructions included, no call lowers iterations, in the engine's
\* memory or in the file, and both equal the number of update_regret calls
\* that have returned since the file was first initialised
IterationsMonotone ==
    /\ last.op # "idle" =>
           Iterations(Stored) >= Iterations(Get(last.file, "game_theory", EmptyDict))
    /\ last.e \in Engines =>
           Iterations(state[last.e]) >= Iterations(last.before)
    /\ Iterations(Stored) = updates
    /\ \A e \in Engines : Constructed(e) => Iterations(state[e]) = updates

\* C21 witness: an engine with another action set is constructed from the
\* file after two updates and a penalty, and has the two iterations
IterationsMonotoneWitness ==
    /\ last.op = "construct"
    /\ last.actions # <<>>
    /\ last.actions # actions[last.e]
    /\ Iterations(last.before) = 2
    /\ penalties >= 1
    /\ Iterations(state[last.e]) = 2
    /\ updates = 2

---------------------------------------------------------------------------
(* One engine whose configuration stays what it was when the engine was    *)
(* first constructed over an empty history file.                           *)

\* the action tuples an engine is configured with
Configurations == {DefaultActions, <<"reply", "quote", "reddit_post">>}

\* the state after GameTheoryEngine(load_history, save_history, acts) where
\* the history file does not exist yet
InitConfigured ==
    \E acts \in Configurations :
        LET hist == load_history(EmptyDict)
            game_state == InitialGameState(hist, acts)
        IN  /\ actions = [e \in Engines |-> acts]
            /\ state = [e \in Engines |-> game_state]
            /\ history = save_history(EmptyDict,
                                      Put(hist, "game_theory", game_state), TRUE)
            /\ last = Idle
            /\ penalties = 0
            /\ updates = 0
            /\ run = NoRun
            /\ reply = NoReplyEngine
            /\ sched = NoTask

\* the next run of the script constructs the engine again, with the same
\* actions
Restart(e) ==
    /\ Constructed(e)
    /\ Construct(e, ActionsTuple(actions[e]), TRUE)

NextConfigured ==
    \/ \E e \in Engines, payoffs \in UpdatePayoffs, a \in AllActions :
           UpdateRegret(e, payoffs, a, TRUE)
    \/ \E e \in Engines, a \in AllActions : PenalizeFailure(e, a, TRUE)
    \/ \E e \in Engines, payoffs \in QueryPayoffs : MixedStrategy(e, payoffs)
    \/ \E e \in Engines : Diagnostics(e)
    \/ \E e \in Engines : Restart(e)
    \/ Return

SpecConfigured == InitConfigured /\ [][NextConfigured]_vars

---------------------------------------------------------------------------
(* estimate_payoffs over a grid of tweet contexts *)

\* the engagement counts of a tweet: none, total 26.0 (low for reply and
\* quote), total 50.0, total 250.0 (high for quote), total 1200.0 (a pile-on)
Engagements ==
    { EmptyDict,
      [engagement |-> [reply_count |-> 10, favorite_count |-> 20]],
      [engagement |-> [retweet_count |-> 50]],
      [engagement |-> [quote_count |-> 100, retweet_count |-> 130]],
      [engagement |-> [retweet_count |-> 1200]] }

\* the lengths of the tweet's text: short, and within 60 .. 260
TextLengths == {10, 100}

\* the contexts: every combination of the three flags with an engagement
\* and a text length
Contexts ==
    { e @@ [has_question |-> q, has_media |-> m, has_video |-> v, text_len |-> n] :
        e \in Engagements, q \in BOOLEAN, m \in BOOLEAN, v \in BOOLEAN,
        n \in TextLengths }

NextContexts ==
    \/ \E e \in Engines, tweet \in Contexts : EstimatePayoffs(e, tweet)
    \/ Return

SpecContexts == InitConfigured /\ [][NextContexts]_vars

\* the context that differs from tweet in the flag only
Flipped(tweet, flag) == Put(tweet, flag, ~Get(tweet, flag, FALSE))

\* C23: of two contexts that differ only in has_question, the one with
\* has_question true has the strictly higher reply payoff, and every other
\* action has the same payoff in both
QuestionFavoursReply ==
    last.op = "estimate_payoffs" =>
        LET this == last.result
            other == estimate_payoffs(Flipped(last.tweet, "has_question"),
                                      last.actions)
        IN  /\ IF last.tweet.has_question
                   THEN this["reply"] > other["reply"]
                   ELSE this["reply"] < other["reply"]
            /\ \A a \in Range(last.actions) \ {"reply"} : this[a] = other[a]

\* C23 witness: a question with media on a three-action engine, whose reply
\* payoff is 1.6 above that of the same tweet without the question
QuestionFavoursReplyWitness ==
    /\ last.op = "estimate_payoffs"
    /\ last.actions = <<"reply", "quote", "reddit_post">>
    /\ last.tweet.has_question /\ last.tweet.has_media
    /\ last.result["reply"] =
           estimate_payoffs(Flipped(last.tweet, "has_question"),
                            last.actions)["reply"] + 32

\* C24: of two contexts that differ only in has_media, the one with
\* has_media true has the strictly higher quote payoff, and the quote payoff
\* gains strictly more than the reply payoff; of two contexts that differ
\* only in has_video, the one with has_video true has the strictly higher
\* quote payoff
MediaFavoursQuote ==
    last.op = "estimate_payoffs" =>
        LET this == last.result
            media == estimate_payoffs(Flipped(last.tweet, "has_media"),
                                      last.actions)
            video == estimate_payoffs(Flipped(last.tweet, "has_video"),
                                      last.actions)
        IN  /\ IF last.tweet.has_media
                   THEN /\ this["quote"] > media["quote"]
                        /\ this["quote"] - media["quote"]
                               > this["reply"] - media["reply"]
                   ELSE /\ media["quote"] > this["quote"]
                        /\ media["quote"] - this["quote"]
                               > media["reply"] - this["reply"]
            /\ IF last.tweet.has_video
                   THEN this["quote"] > video["quote"]
                   ELSE video["quote"] > this["quote"]

\* C24 witness: a tweet with media and video, whose quote payoff is 1.0
\* above that of the same tweet without media (the reply payoff 0.5 above)
\* and 0.4 above that of the same tweet without video
MediaFavoursQuoteWitness ==
    /\ last.op = "estimate_payoffs"
    /\ last.tweet.has_media /\ last.tweet.has_video
    /\ LET media == estimate_payoffs(Flipped(last.tweet, "has_media"),
                                     last.actions)
           video == estimate_payoffs(Flipped(last.tweet, "has_video"),
                                     last.actions)
       IN  /\ last.result["quote"] = media["quote"] + 20
           /\ last.result["reply"] = media["reply"] + 10
           /\ last.result["quote"] = video["quote"] + 8

\* C25: from the default-initialised engine, after any calls of
\* update_regret and penalize_failure, the strategy counts add up to the
\* number of configured actions plus iterations, in memory and in the
\* history file
StrategyCountsSum ==
    \A e \in Engines :
        /\ SumValues(Counts(state[e])) = Len(actions[e]) + Iterations(state[e])
        /\ SumValues(Counts(Stored)) = Len(actions[e]) + Iterations(Stored)

\* C25 witness: the second update_regret of a two-action engine, after a
\* penalty, chose an action that is not configured: the counts add up to 4
StrategyCountsSumWitness ==
    /\ last.op = "update_regret"
    /\ last.actions = DefaultActions
    /\ last.action \notin Range(last.actions)
    /\ penalties = 1
    /\ Iterations(state[last.e]) = 2
    /\ SumValues(Counts(state[last.e])) = 4

\* the state holds a regret and a strategy count for exactly the actions acts
KeysAre(st, acts) ==
    /\ DOMAIN Regret(st) = Range(acts)
    /\ DOMAIN Counts(st) = Range(acts)

\* C28: from the default-initialised engine, while every action passed to
\* update_regret and penalize_failure is configured, regret and
\* strategy_counts have exactly the configured actions as keys (the keys are
\* those before any call, a call with a configured action keeps them, and
\* the three-action engine, which can be passed no other action, has them
\* always); a call with an action that is not configured leaves a key for it
\* in the stored record; diagnostics and mixed_strategy return exactly the
\* configured actions
KeySetsConfigured ==
    /\ \A e \in Engines :
           (updates = 0 /\ penalties = 0) \/ Range(actions[e]) = AllActions
               => KeysAre(state[e], actions[e]) /\ KeysAre(Stored, actions[e])
    /\ (last.op \in {"update_regret", "penalize_failure"}
           /\ last.action \in Range(last.actions)
           /\ KeysAre(last.before, last.actions))
          => KeysAre(state[last.e], last.actions) /\ KeysAre(Stored, last.actions)
    /\ (last.op \in {"update_regret", "penalize_failure"}
           /\ last.action \notin Range(last.actions))
          => /\ last.action \in DOMAIN Regret(Stored) \cup DOMAIN Counts(Stored)
             /\ ~KeysAre(Stored, last.actions)
             /\ Stored = state[last.e]
    /\ last.op = "diagnostics" => DOMAIN last.result = Range(last.actions)
    /\ last.op = "mixed_strategy" => DOMAIN last.result.num = Range(last.actions)

\* C28 witness: diagnostics of a two-action engine whose stored record has
\* a regret for reddit_post, left by a penalize_failure, reports reply and
\* quote only
KeySetsConfiguredWitness ==
    /\ last.op = "diagnostics"
    /\ last.actions = DefaultActions
    /\ "reddit_post" \in DOMAIN Regret(Stored)
    /\ "reddit_post" \in DOMAIN Regret(last.before)
    /\ DOMAIN last.result = {"reply", "quote"}

---------------------------------------------------------------------------
(* Two engine instances over one history file, as two processes of the bot *)
(* would have.  Each call runs to its end before the next one starts.      *)

Instances == {1, 2}

\* the state after both instances were constructed, with the same actions,
\* over a history file that did not exist: the second one loads what the
\* first one saved, and saves the same record
InitTwo ==
    \E acts \in Configurations :
        LET hist == load_history(EmptyDict)
            game_state == InitialGameState(hist, acts)
        IN  /\ actions = [e \in Instances |-> acts]
            /\ state = [e \in Instances |-> game_state]
            /\ history = save_history(EmptyDict,
                                      Put(hist, "game_theory", game_state), TRUE)
            /\ last = Idle
            /\ penalties = 0
            /\ updates = 0
            /\ run = NoRun
            /\ reply = NoReplyEngine
            /\ sched = NoTask

NextTwo ==
    \/ \E e \in Instances, payoffs \in UpdatePayoffs, a \in AllActions :
           UpdateRegret(e, payoffs, a, TRUE)
    \/ \E e \in Instances, a \in AllActions : PenalizeFailure(e, a, TRUE)
    \/ \E e \in Instances : Restart(e)
    \/ Return

SpecTwo == InitTwo /\ [][NextTwo]_vars

\* C26: after a persist by an instance, the stored game_theory record is
\* that instance's own state, whatever the file held under game_theory: an
\* update_regret stores the update of the state the instance had before
\* the call, so that when another instance has stored an update from the
\* same iterations in between, the stored iterations end 1 above that
\* value and the stored regrets are not those the other instance stored
LastWriterWins ==
    /\ last.op \in Persisting => Stored = state[last.e]
    /\ last.op = "update_regret" =>
           /\ Stored = update_regret(last.before, last.actions, last.payoffs,
                                     last.action)
           /\ Iterations(Stored) = Iterations(last.before) + 1
    /\ last.op = "penalize_failure" =>
           Stored = penalize_failure(last.before, last.action)

\* C26 witness: both instances were constructed at iterations 0; instance 1
\* stored its update, with a changed regret, and then instance 2 stored
\* its own: the file holds iterations 1 after two updates, and not the
\* regrets that instance 1 stored
LastWriterWinsWitness ==
    /\ last.op = "update_regret"
    /\ last.e = 2
    /\ Iterations(last.before) = 0
    /\ Get(last.file, "game_theory", EmptyDict) = state[1]
    /\ Iterations(state[1]) = 1
    /\ Regret(state[1]) # Regret(last.before)
    /\ updates = 2
    /\ Iterations(Stored) = 1
    /\ Regret(Stored) # Regret(state[1])

---------------------------------------------------------------------------
(* ReplyEngine and its RateLimiter (src/reply_engine.py), called from the  *)
(* two coroutines that can run _run_main_cycle in one event loop.  A       *)
(* coroutine runs alone from one await to the next.                        *)

\* timedelta(hours=1), in ticks of the clock
Hour == 2

\* config.max_replies_per_hour
MaxRepliesPerHour == {1, 2}

\* config.mode
Modes == {"log", "post", "both"}

\* _clean_old_responses(): the responses newer than one hour ago are kept
clean_old_responses(responses, now) ==
    SelectSeq(responses, LAMBDA r : r > now - Hour)

\* can_respond(), after _clean_old_responses()
can_respond(responses, max_per_hour) == Len(responses) < max_per_hour

\* record_response()
record_response(responses, now) == Append(responses, now)

\* ReplyEngine(config)
InitReplies ==
    /\ actions = [e \in Engines |-> <<>>]
    /\ state = [e \in Engines |-> EmptyDict]
    /\ history = EmptyDict
    /\ last = Idle
    /\ penalties = 0
    /\ updates = 0
    /\ run = NoRun
    /\ \E max \in MaxRepliesPerHour, mode \in Modes :
           reply = [NoReplyEngine EXCEPT !.max_per_hour = max, !.mode = mode]
    /\ sched = NoTask

\* _process_single_response of caller c, for a response that passes the
\* filter, up to its first await: can_respond() is evaluated (for the log
\* entry or for the decision to post) and, in mode post or both, the
\* caller goes on to post when it returned True
ProcessSingleResponse(c) ==
    /\ reply.pc[c] = "idle"
    /\ LET cleaned == clean_old_responses(reply.responses, reply.now)
       IN  reply' = [reply EXCEPT
                        !.responses = cleaned,
                        !.pc[c] = IF reply.mode \in {"post", "both"}
                                     /\ can_respond(cleaned, reply.max_per_hour)
                                  THEN "posting" ELSE "idle"]
    /\ UNCHANGED <<engineVars, last, penalties, updates, run, sched>>

\* caller c is resumed after asyncio.sleep(delay) and post_response, which
\* returned success; record_response() is called when it is True
PostResponse(c, success) ==
    /\ reply.pc[c] = "posting"
    /\ reply' = [reply EXCEPT
                     !.responses = IF success THEN record_response(@, reply.now)
                                   ELSE @,
                     !.sent = IF success THEN Append(@, reply.now) ELSE @,
                     !.pc[c] = "idle"]
    /\ UNCHANGED <<engineVars, last, penalties, updates, run, sched>>

\* time passes
Tick ==
    /\ reply.now < MaxClock
    /\ reply' = [reply EXCEPT !.now = @ + 1]
    /\ UNCHANGED <<engineVars, last, penalties, updates, run, sched>>

NextReplies ==
    \/ \E c \in Callers : ProcessSingleResponse(c)
    \/ \E c \in Callers, success \in BOOLEAN : PostResponse(c, success)
    \/ Tick

SpecReplies == InitReplies /\ [][NextReplies]_vars

\* the number of responses recorded in the hour that ends at time t
SentInHour(t) ==
    Cardinality({i \in DOMAIN reply.sent :
                    reply.sent[i] > t - Hour /\ reply.sent[i] <= t})

\* C29: in every one-hour window, at most max_replies_per_hour responses
\* are recorded as sent, also when the two callers interleave at their
\* awaits
RateLimitRespected ==
    \A t \in 0 .. reply.now : SentInHour(t) <= reply.max_per_hour

---------------------------------------------------------------------------
(* ScheduledTask.run_once (src/scheduler.py), called by the task's         *)
(* run_loop and by Scheduler.run_task_now in one event loop.  A coroutine  *)
(* runs alone from one await to the next: run_once up to "await            *)
(* self.func(...)" is one step, and from there to its end another.         *)

\* the flag, the counters and func_calls of task t
Snapshot(t) ==
    <<t.is_running, t.total_runs, t.successful_runs, t.failed_runs,
      t.func_calls>>

\* how the awaited function ends: it returns, it raises an Exception, or
\* the caller is cancelled while it waits (CancelledError, which "except
\* Exception" does not catch)
Outcomes == {"returned", "raised", "cancelled"}

InitTask ==
    /\ actions = [e \in Engines |-> <<>>]
    /\ state = [e \in Engines |-> EmptyDict]
    /\ history = EmptyDict
    /\ last = Idle
    /\ penalties = 0
    /\ updates = 0
    /\ run = NoRun
    /\ reply = NoReplyEngine
    /\ sched = NoTask

\* (mutant) run_once without the test of is_running
RunOnceUnguarded(c) ==
    /\ sched.pc[c] = "idle"
    /\ sched.func_calls < MaxCalls
    /\ sched' = [sched EXCEPT !.is_running = TRUE, !.pc[c] = "running",
                              !.func_calls = @ + 1, !.caller = c, !.step = "started",
                              !.result = "none", !.prev = Snapshot(sched)]
    /\ UNCHANGED <<engineVars, last, penalties, updates, run, reply>>

\* caller c calls run_once: it returns False when is_running is set, and
\* otherwise sets it and calls self.func
RunOnce(c) ==
    /\ sched.pc[c] = "idle"
    /\ sched.is_running \/ sched.func_calls < MaxCalls
    /\ sched' = IF sched.is_running
                THEN [sched EXCEPT !.caller = c, !.step = "skipped",
                                   !.result = "False",
                                   !.prev = Snapshot(sched)]
                ELSE [sched EXCEPT !.is_running = TRUE, !.pc[c] = "running",
                                   !.func_calls = @ + 1, !.caller = c, !.step = "started",
                                   !.result = "none", !.prev = Snapshot(sched)]
    /\ UNCHANGED <<engineVars, last, penalties, updates, run, reply>>

\* (mutant) run_once without the finally clause: is_running is reset only
\* after the function returned
RunOnceEndsUnreset(c, outcome) ==
    /\ sched.pc[c] = "running"
    /\ sched' = [sched EXCEPT
                     !.total_runs = IF outcome = "cancelled" THEN @ ELSE @ + 1,
                     !.successful_runs = IF outcome = "returned" THEN @ + 1 ELSE @,
                     !.failed_runs = IF outcome = "raised" THEN @ + 1 ELSE @,
                     !.is_running = (outcome # "returned"),
                     !.pc[c] = "idle",
                     !.last_error = IF outcome = "returned" THEN "None"
                                    ELSE IF outcome = "raised" THEN "error"
                                    ELSE @,
                     !.caller = c,
                     !.step = outcome,
                     !.result = IF outcome = "returned" THEN "True"
                                ELSE IF outcome = "raised" THEN "False"
                                ELSE "none",
                     !.prev = Snapshot(sched)]
    /\ UNCHANGED <<engineVars, last, penalties, updates, run, reply>>

\* caller c is resumed in run_once: the function returned (the try block
\* counts a successful run and returns True), raised (the except block
\* counts a failed run and returns False) or the caller was cancelled (no
\* count); the finally clause resets is_running
RunOnceEnds(c, outcome) ==
    /\ sched.pc[c] = "running"
    /\ sched' = [sched EXCEPT
                     !.total_runs = IF outcome = "cancelled" THEN @ ELSE @ + 1,
                     !.successful_runs = IF outcome = "returned" THEN @ + 1 ELSE @,
                     !.failed_runs = IF outcome = "raised" THEN @ + 1 ELSE @,
                     !.is_running = FALSE,
                     !.pc[c] = "idle",
                     !.last_error = IF outcome = "returned" THEN "None"
                                    ELSE IF outcome = "raised" THEN "error"
                                    ELSE @,
                     !.caller = c,
                     !.step = outcome,
                     !.result = IF outcome = "returned" THEN "True"
                                ELSE IF outcome = "raised" THEN "False"
                                ELSE "none",
                     !.prev = Snapshot(sched)]
    /\ UNCHANGED <<engineVars, last, penalties, updates, run, reply>>

NextTask ==
    \/ \E c \in TaskCallers : RunOnce(c)
    \/ \E c \in TaskCallers, outcome \in Outcomes : RunOnceEnds(c, outcome)

SpecTask == InitTask /\ [][NextTask]_vars

\* the callers whose call of self.func is in progress
InProgress == {c \in TaskCallers : sched.pc[c] = "running"}

\* C30: at most one call of the task's function is in progress; a
\* run_once made while one is in progress returns False, calls nothing and
\* leaves the counters; is_running is set exactly while a call is in
\* progress, so it is reset when the run ends, by a return or by an
\* exception; total_runs = successful_runs + failed_runs
OneRunAtATime ==
    /\ Cardinality(InProgress) <= 1
    /\ sched.is_running = (InProgress # {})
    /\ sched.step \in Outcomes => ~sched.is_running
    /\ sched.step = "skipped" =>
           /\ sched.prev[1]
           /\ sched.result = "False"
           /\ Snapshot(sched) = sched.prev
    /\ sched.total_runs = sched.successful_runs + sched.failed_runs

\* C30 witness: run_once returned False to a caller while the other
\* caller's run was in progress, after a run that had raised and one that
\* had returned
OneRunAtATimeWitness ==
    /\ sched.step = "skipped"
    /\ sched.result = "False"
    /\ Cardinality(InProgress) = 1
    /\ sched.caller \notin InProgress
    /\ sched.failed_runs = 1
    /\ sched.successful_runs = 1
    /\ sched.func_calls = 3

(* Comparing probabilities.  The product of two two-limb numbers is taken  *)
(* over limbs of three decimal digits, lowest first; every limb but the    *)
(* highest is below 1000.                                                  *)

BigLimbs(x) == <<x[2] % 1000, x[2] \div 1000, x[1] % 1000, x[1] \div 1000>>

RECURSIVE Carry(_, _, _)
Carry(c, k, carry) ==
    IF k = Len(c) THEN <<c[k] + carry>>
    ELSE <<(c[k] + carry) % 1000>> \o Carry(c, k + 1, (c[k] + carry) \div 1000)

BigProduct(x, y) ==
    LET a == BigLimbs(x)
        b == BigLimbs(y)
        coeff(k) == SumSeq([i \in 1 .. 4 |->
                        IF k + 1 - i \in 1 .. 4 THEN a[i] * b[k + 1 - i] ELSE 0])
    IN  Carry([k \in 1 .. 7 |-> coeff(k)], 1, 0)

RECURSIVE LimbsLeq(_, _, _)
LimbsLeq(x, y, k) ==
    IF k = 0 THEN TRUE
    ELSE IF x[k] # y[k] THEN x[k] < y[k]
    ELSE LimbsLeq(x, y, k - 1)

\* the probability of action a in distribution p is <= the one in q
ProbabilityLeq(p, q, a) ==
    LimbsLeq(BigProduct(Get(p.num, a, BigZero), q.den),
             BigProduct(Get(q.num, a, BigZero), p.den), 7)

====
